---------------------------- MODULE Spec2Model ----------------------------
(***************************************************************************)
(* Model of util_sl.py: the licence-plate text normaliser                  *)
(* (extract_plate_format, license_complies_format, format_license,         *)
(* read_license_plate) and the containment matcher (get_car).              *)
(*                                                                         *)
(* A Python str is a sequence of one-character strings.  A Python          *)
(* Optional[str] is a record [some, val].  A call that ends in an          *)
(* uncaught KeyError is recorded as such, never as a value.                *)
(* Confidences are integers in 0..100 (hundredths of the float in [0,1]).  *)
(***************************************************************************)
EXTENDS Integers, Sequences, FiniteSets, TLC

VARIABLES
    text,               \* argument of the text function that is called
    call,               \* "pending" before the call, then the function's name ("idle": not in use)
    ret,                \* outcome of the text function
    result,             \* what ocr.ocr returned to read_license_plate
    pc,                 \* position inside read_license_plate
    idx,                \* 1-based position of the detection the loop is at
    best_text,          \* read_license_plate's local best_text
    best_score,         \* read_license_plate's local best_score
    read_ret,           \* outcome of read_license_plate
    license_plate,      \* get_car's first argument
    vehicle_track_ids,  \* get_car's second argument
    car_ret             \* outcome of get_car

vars == <<text, call, ret, result, pc, idx, best_text, best_score, read_ret,
          license_plate, vehicle_track_ids, car_ret>>

textVars == <<text, call, ret>>
readVars == <<result, pc, idx, best_text, best_score, read_ret>>
carVars  == <<license_plate, vehicle_track_ids, car_ret>>

---------------------------------------------------------------------------
(* Bounds of the model                                                     *)

MaxLen == 7
MaxHyps == 2
MaxCars == 2

---------------------------------------------------------------------------
(* Characters and Python's str operations                                  *)

ascii_uppercase ==
    <<"A","B","C","D","E","F","G","H","I","J","K","L","M",
      "N","O","P","Q","R","S","T","U","V","W","X","Y","Z">>

ascii_lowercase ==
    <<"a","b","c","d","e","f","g","h","i","j","k","l","m",
      "n","o","p","q","r","s","t","u","v","w","x","y","z">>

Digits == {"0","1","2","3","4","5","6","7","8","9"}

Range(f) == {f[i] : i \in DOMAIN f}

UpperLetters == Range(ascii_uppercase)

LowerLetters == Range(ascii_lowercase)

IsUpper(c) == c \in UpperLetters

IsDigit(c) == c \in Digits

\* str.upper() on one character
UpperChar(c) ==
    IF c \in LowerLetters
    THEN ascii_uppercase[CHOOSE i \in DOMAIN ascii_lowercase : ascii_lowercase[i] = c]
    ELSE c

\* str.upper()
Upper(s) == [i \in 1..Len(s) |-> UpperChar(s[i])]

\* str.replace(c, "")
Remove(s, c) == SelectSeq(s, LAMBDA x : x # c)

\* s[-2:]
LastTwo(s) == IF Len(s) > 2 THEN SubSeq(s, Len(s) - 1, Len(s)) ELSE s

\* str.split(sep) for a one-character separator
RECURSIVE Split(_, _)
Split(s, sep) ==
    LET hits == {i \in 1..Len(s) : s[i] = sep}
    IN  IF hits = {} THEN <<s>>
        ELSE LET i == CHOOSE k \in hits : \A m \in hits : k <= m
             IN  <<SubSeq(s, 1, i - 1)>> \o Split(SubSeq(s, i + 1, Len(s)), sep)

None == [some |-> FALSE, val |-> <<>>]
Some(s) == [some |-> TRUE, val |-> s]

\* outcome of a function that returns a str or None, or raises
Returned(opt) == [kind |-> "returned", some |-> opt.some, val |-> opt.val, bool |-> FALSE]
ReturnedBool(b) == [kind |-> "returned", some |-> TRUE, val |-> <<>>, bool |-> b]
Raised == [kind |-> "KeyError", some |-> FALSE, val |-> <<>>, bool |-> FALSE]
NotCalled == [kind |-> "none", some |-> FALSE, val |-> <<>>, bool |-> FALSE]

---------------------------------------------------------------------------
(* The confusion tables                                                    *)

dict_char_to_int ==
    ("O" :> "0") @@ ("I" :> "1") @@ ("J" :> "3") @@
    ("A" :> "4") @@ ("G" :> "6") @@ ("S" :> "5")

dict_int_to_char ==
    ("0" :> "O") @@ ("1" :> "I") @@ ("3" :> "J") @@
    ("4" :> "A") @@ ("6" :> "G") @@ ("5" :> "S")

---------------------------------------------------------------------------
(* The two regular expressions                                             *)

\* ([A-Z]{2})(\d{4}) matches s starting at position i
PrimaryAt(s, i) ==
    /\ i >= 1
    /\ i + 5 <= Len(s)
    /\ IsUpper(s[i])
    /\ IsUpper(s[i + 1])
    /\ \A k \in 2..5 : IsDigit(s[i + k])

\* re.search(r"([A-Z]{2})(\d{4})", s): the leftmost match, as <<letters, digits>>
SearchPrimary(s) ==
    LET starts == {i \in 1..Len(s) : PrimaryAt(s, i)}
    IN  IF starts = {} THEN <<>>
        ELSE LET i == CHOOSE k \in starts : \A m \in starts : k <= m
             IN  <<SubSeq(s, i, i + 1), SubSeq(s, i + 2, i + 5)>>

\* ([A-Z]+)(\d{4})$ matches s starting at position i
LooseAt(s, i) ==
    /\ i >= 1
    /\ i <= Len(s) - 4
    /\ \A k \in i..(Len(s) - 4) : IsUpper(s[k])
    /\ \A k \in (Len(s) - 3)..Len(s) : IsDigit(s[k])

\* re.search(r"([A-Z]+)(\d{4})$", s): the leftmost match, as <<letters, digits>>
SearchLoose(s) ==
    LET starts == {i \in 1..Len(s) : LooseAt(s, i)}
    IN  IF starts = {} THEN <<>>
        ELSE LET i == CHOOSE k \in starts : \A m \in starts : k <= m
             IN  <<SubSeq(s, i, Len(s) - 4), SubSeq(s, Len(s) - 3, Len(s))>>

---------------------------------------------------------------------------
(* extract_plate_format                                                    *)

Dense(t) == Remove(Remove(Upper(t), " "), "-")

\* variant: the confusion table applied to the matched letters
extract_plate_format_substituting(t) ==
    LET match == SearchPrimary(Dense(t))
    IN  IF match # <<>>
        THEN Some([i \in 1..2 |-> IF match[1][i] \in DOMAIN dict_char_to_int
                                  THEN dict_char_to_int[match[1][i]]
                                  ELSE match[1][i]] \o <<"-">> \o match[2])
        ELSE None

extract_plate_format(t) ==
    LET match == SearchPrimary(Dense(t))
    IN  IF match # <<>> THEN Some(match[1] \o <<"-">> \o match[2]) ELSE None

---------------------------------------------------------------------------
(* The letter/number split shared by license_complies_format and           *)
(* format_license: <<letters, numbers>>, or <<>> when there is none        *)

SplitParts(t) ==
    IF "-" \in Range(t)
    THEN LET parts == Split(t, "-")
         IN  IF Len(parts) = 2
             THEN <<(IF Len(parts[1]) > 2 THEN LastTwo(parts[1]) ELSE parts[1]), parts[2]>>
             ELSE <<>>
    ELSE LET match == SearchLoose(t)
         IN  IF match # <<>> THEN <<LastTwo(match[1]), match[2]>> ELSE <<>>

---------------------------------------------------------------------------
(* license_complies_format                                                 *)

license_complies_format(t) ==
    LET u == Remove(Upper(t), " ")
        split == SplitParts(u)
    IN  IF split = <<>> THEN FALSE
        ELSE LET letters == split[1]
                 numbers == split[2]
             IN  /\ Len(letters) = 2
                 /\ Len(numbers) = 4
                 /\ \A i \in 1..Len(letters) :
                        IsUpper(letters[i]) \/ letters[i] \in DOMAIN dict_int_to_char
                 /\ \A i \in 1..Len(numbers) :
                        IsDigit(numbers[i]) \/ numbers[i] \in DOMAIN dict_char_to_int

---------------------------------------------------------------------------
(* format_license                                                          *)

\* the letter loop: one character
FormatLetter(c) ==
    IF c \in DOMAIN dict_char_to_int THEN dict_int_to_char[dict_char_to_int[c]] ELSE c

\* the number loop: whether the character's lookup raises KeyError
NumberRaises(c) == c \in DOMAIN dict_int_to_char /\ c \notin DOMAIN dict_char_to_int

\* the number loop: one character whose lookup does not raise
FormatNumber(c) ==
    IF c \in DOMAIN dict_int_to_char THEN dict_char_to_int[c]
    ELSE IF c \in DOMAIN dict_char_to_int THEN dict_char_to_int[c]
    ELSE c

format_license(t) ==
    LET formatted_text == extract_plate_format(t)
    IN  IF formatted_text.some /\ formatted_text.val # <<>>
        THEN Returned(formatted_text)
        ELSE LET u == Remove(Upper(t), " ")
                 split == SplitParts(u)
             IN  IF split = <<>> THEN Returned(Some(u))
                 ELSE LET letters == split[1]
                          numbers == split[2]
                          formatted_letters == [i \in 1..Len(letters) |-> FormatLetter(letters[i])]
                      IN  IF \E i \in 1..Len(numbers) : NumberRaises(numbers[i])
                          THEN Raised
                          ELSE Returned(Some(formatted_letters \o <<"-">> \o
                                   [i \in 1..Len(numbers) |-> FormatNumber(numbers[i])]))

---------------------------------------------------------------------------
(* Inputs of the text functions                                            *)

\* the characters the exhaustive inputs are made of: a letter (one of
\* dict_char_to_int), a digit of dict_int_to_char, a digit of neither
\* table, the hyphen and the space
Alphabet == {"O", "0", "7", "-", " "}

\* the texts of the documented examples, and longer or lower-case ones of
\* the same kinds
ExampleTexts ==
    { <<"A","B","1","2","3","4">>,
      <<"N","W","K","F","7","6","1","7">>,
      <<"K","F","-","O","6","1","7">>,
      <<"K","F","-","0","6","1","7">>,
      <<"A","B","C","D">>,
      <<"a","b"," ","c","d">>,
      <<"X","X","9","9","9","9">>,
      <<"K","F","-","O","7","8","9">>,
      <<"0","K","-","2","7","8","9">>,
      <<"O","S","1","2","3","4">>,
      <<"A","B","1","2","3","4","C","D","5","6","7","8">>,
      <<"n","w"," ","k","f","-","7","6","1","7">>,
      <<"K","-","F","-","2","7","8","9">>,
      <<"K","F","-","K","7","8","9">>,
      <<"K","7","7","7","7">> }

Texts == UNION {[1..n -> Alphabet] : n \in 0..MaxLen} \cup ExampleTexts

---------------------------------------------------------------------------
(* The text functions as operations                                        *)

NoScore == [some |-> FALSE, val |-> 0]
SomeScore(x) == [some |-> TRUE, val |-> x]

TextIdle == /\ text = <<>>
            /\ call = "idle"
            /\ ret = NotCalled

ReadIdle == /\ result = [kind |-> "None", pages |-> <<>>]
            /\ pc = "idle"
            /\ idx = 0
            /\ best_text = None
            /\ best_score = 0
            /\ read_ret = [status |-> "none", text |-> None, score |-> NoScore]

CarIdle == /\ license_plate = <<0, 0, 0, 0, 0, 0>>
           /\ vehicle_track_ids = <<>>
           /\ car_ret = [status |-> "idle", val |-> <<>>]

InitNormalize ==
    /\ text \in Texts
    /\ call = "pending"
    /\ ret = NotCalled
    /\ ReadIdle
    /\ CarIdle

ExtractPlateFormat ==
    /\ call = "pending"
    /\ call' = "extract_plate_format"
    /\ ret' = Returned(extract_plate_format(text))
    /\ UNCHANGED <<text, readVars, carVars>>

LicenseCompliesFormat ==
    /\ call = "pending"
    /\ call' = "license_complies_format"
    /\ ret' = ReturnedBool(license_complies_format(text))
    /\ UNCHANGED <<text, readVars, carVars>>

FormatLicense ==
    /\ call = "pending"
    /\ call' = "format_license"
    /\ ret' = format_license(text)
    /\ UNCHANGED <<text, readVars, carVars>>

NextNormalize == ExtractPlateFormat \/ LicenseCompliesFormat \/ FormatLicense

SpecNormalize == InitNormalize /\ [][NextNormalize]_vars

---------------------------------------------------------------------------
(* read_license_plate                                                      *)

\* the texts the OCR hypotheses are drawn from
HypTexts ==
    { <<"X","X","9","9","9","9">>,
      <<"A","B","1","2","3","4">>,
      <<"K","F","-","O","7","8","9">>,
      <<"K","F","-","S","7","8","9">>,
      <<"K","F","-","O","6","1","7">>,
      <<"0","K","-","2","7","8","9">>,
      <<"A","B","C","D">>,
      <<"k","f","-","o","7","8","9">> }

\* confidences, in hundredths
Scores == {0, 50, 90}

\* one detection of ocr.ocr, without its quadrilateral
Detections == [text : HypTexts, score : Scores]

DetSeqs == UNION {[1..n -> Detections] : n \in 0..MaxHyps}

\* ocr.ocr returns None, [], [None] or [detections]
OcrResults ==
    {[kind |-> "None", pages |-> <<>>], [kind |-> "list", pages |-> <<>>],
     [kind |-> "list", pages |-> <<[kind |-> "None", dets |-> <<>>]>>]}
    \cup {[kind |-> "list", pages |-> <<[kind |-> "list", dets |-> d]>>] : d \in DetSeqs}

\* "not result or not result[0]"
NoDetections(r) ==
    \/ r.kind = "None"
    \/ r.pages = <<>>
    \/ r.pages[1].kind = "None"
    \/ r.pages[1].dets = <<>>

\* result[0]
dets == result.pages[1].dets

\* Python's truth value of a str-or-None
Truthy(opt) == opt.some /\ opt.val # <<>>

\* variant: a primary match is only a candidate, never an immediate return
ReturnsNever(extracted_plate) == FALSE

\* "if extracted_plate: return extracted_plate, score"
ReturnsImmediately(extracted_plate) == Truthy(extracted_plate)

\* "if score > best_score"
Improves(score, best) == score > best

ReadReturn(t, s) == [status |-> "returned", text |-> t, score |-> s]

InitRead ==
    /\ TextIdle
    /\ result \in OcrResults
    /\ pc = "start"
    /\ idx = 0
    /\ best_text = None
    /\ best_score = 0
    /\ read_ret = [status |-> "none", text |-> None, score |-> NoScore]
    /\ CarIdle

\* the emptiness check and the initialisation of the running best
ReadStart ==
    /\ pc = "start"
    /\ IF NoDetections(result)
       THEN /\ pc' = "done"
            /\ read_ret' = ReadReturn(None, NoScore)
            /\ UNCHANGED <<idx, best_text, best_score>>
       ELSE /\ pc' = "loop"
            /\ idx' = 1
            /\ best_text' = None
            /\ best_score' = 0
            /\ UNCHANGED read_ret
    /\ UNCHANGED <<result, textVars, carVars>>

\* one iteration of "for detection in result[0]"
ReadDetection ==
    /\ pc = "loop"
    /\ idx <= Len(dets)
    /\ LET t == Upper(dets[idx].text)
           score == dets[idx].score
           extracted_plate == extract_plate_format(t)
       IN  IF ReturnsImmediately(extracted_plate)
           THEN /\ pc' = "done"
                /\ read_ret' = ReadReturn(extracted_plate, SomeScore(score))
                /\ UNCHANGED <<idx, best_text, best_score>>
           ELSE IF license_complies_format(t)
           THEN LET formatted_text == format_license(t)
                IN  IF formatted_text.kind = "KeyError"
                    THEN /\ pc' = "raised"
                         /\ read_ret' = [status |-> "KeyError", text |-> None, score |-> NoScore]
                         /\ UNCHANGED <<idx, best_text, best_score>>
                    ELSE /\ pc' = "loop"
                         /\ idx' = idx + 1
                         /\ IF Improves(score, best_score)
                            THEN /\ best_text' = [some |-> formatted_text.some,
                                                  val |-> formatted_text.val]
                                 /\ best_score' = score
                            ELSE UNCHANGED <<best_text, best_score>>
                         /\ UNCHANGED read_ret
           ELSE /\ pc' = "loop"
                /\ idx' = idx + 1
                /\ UNCHANGED <<best_text, best_score, read_ret>>
    /\ UNCHANGED <<result, textVars, carVars>>

\* after the loop: "if best_text: return best_text, best_score" or None, None
ReadFinish ==
    /\ pc = "loop"
    /\ idx > Len(dets)
    /\ pc' = "done"
    /\ read_ret' = IF Truthy(best_text)
                   THEN ReadReturn(best_text, SomeScore(best_score))
                   ELSE ReadReturn(None, NoScore)
    /\ UNCHANGED <<result, idx, best_text, best_score, textVars, carVars>>

NextRead == ReadStart \/ ReadDetection \/ ReadFinish

SpecRead == InitRead /\ [][NextRead]_vars

---------------------------------------------------------------------------
(* get_car                                                                 *)

\* one axis of a vehicle box, around the plate's 10..20: strictly around
\* it, tighter, touching its low edge, touching its high edge
Intervals == {<<0, 30>>, <<5, 25>>, <<10, 30>>, <<0, 20>>}

CarIds == {1, 2}

\* (xcar1, ycar1, xcar2, ycar2, car_id)
VehicleEntries ==
    {<<ix[1], iy[1], ix[2], iy[2], id>> : ix \in Intervals, iy \in Intervals, id \in CarIds}

\* (x1, y1, x2, y2, score, class_id)
Plates == {<<10, 10, 20, 20, 90, 0>>, <<0, 0, 10, 10, 90, 0>>}

\* variant: a box that touches the plate on an edge counts
ContainsInclusive(car, plate) ==
    /\ plate[1] >= car[1]
    /\ plate[2] >= car[2]
    /\ plate[3] <= car[3]
    /\ plate[4] <= car[4]

\* "x1 > xcar1 and y1 > ycar1 and x2 < xcar2 and y2 < ycar2"
Contains(car, plate) ==
    /\ plate[1] > car[1]
    /\ plate[2] > car[2]
    /\ plate[3] < car[3]
    /\ plate[4] < car[4]

NotFound == <<-1, -1, -1, -1, -1>>

\* the loop from index j on, with its break
RECURSIVE ScanCars(_, _, _)
ScanCars(plate, cars, j) ==
    IF j > Len(cars) THEN NotFound
    ELSE IF Contains(cars[j], plate) THEN cars[j]
    ELSE ScanCars(plate, cars, j + 1)

get_car(plate, cars) == ScanCars(plate, cars, 1)

InitCar ==
    /\ TextIdle
    /\ ReadIdle
    /\ license_plate \in Plates
    /\ vehicle_track_ids \in UNION {[1..n -> VehicleEntries] : n \in 0..MaxCars}
    /\ car_ret = [status |-> "pending", val |-> <<>>]

GetCar ==
    /\ car_ret.status = "pending"
    /\ car_ret' = [status |-> "returned", val |-> get_car(license_plate, vehicle_track_ids)]
    /\ UNCHANGED <<license_plate, vehicle_track_ids, textVars, readVars>>

NextCar == GetCar

SpecCar == InitCar /\ [][NextCar]_vars

---------------------------------------------------------------------------
(* The whole module: any one of its operations on any input                *)

Init == InitNormalize \/ InitRead \/ InitCar

Next == NextNormalize \/ NextRead \/ NextCar

Spec == Init /\ [][Next]_vars

---------------------------------------------------------------------------
(* Vocabulary of the properties                                            *)

Str_AB1234 == <<"A","B","1","2","3","4">>
Str_AB_1234 == <<"A","B","-","1","2","3","4">>
Str_XX9999 == <<"X","X","9","9","9","9">>
Str_XX_9999 == <<"X","X","-","9","9","9","9">>
Str_NWKF7617 == <<"N","W","K","F","7","6","1","7">>
Str_KF_7617 == <<"K","F","-","7","6","1","7">>
Str_KF_O617 == <<"K","F","-","O","6","1","7">>
Str_KF_0617 == <<"K","F","-","0","6","1","7">>
Str_ABCD == <<"A","B","C","D">>

\* upper-cased, spaces and hyphens removed
DenseForm(t) == SelectSeq(Upper(t), LAMBDA c : c \notin {" ", "-"})

\* 2 upper-case letters immediately followed by 4 digits, somewhere in the dense form
PrimaryMatch(t) == \E i \in 1..Len(DenseForm(t)) : PrimaryAt(DenseForm(t), i)

\* the letters and digits of the leftmost such substring, joined by a hyphen
LeftmostPlate(t) ==
    LET d == DenseForm(t)
        i == CHOOSE k \in 1..Len(d) :
                 PrimaryAt(d, k) /\ \A m \in 1..(k - 1) : ~PrimaryAt(d, m)
    IN  <<d[i], d[i + 1], "-", d[i + 2], d[i + 3], d[i + 4], d[i + 5]>>

\* LL-DDDD
IsCanonical(s) ==
    /\ Len(s) = 7
    /\ IsUpper(s[1]) /\ IsUpper(s[2])
    /\ s[3] = "-"
    /\ \A i \in 4..7 : IsDigit(s[i])

ConfusableLetters == {"O", "I", "J", "A", "G", "S"}

AsDigit(c) ==
    CASE c = "O" -> "0" [] c = "I" -> "1" [] c = "J" -> "3"
      [] c = "A" -> "4" [] c = "G" -> "6" [] c = "S" -> "5" [] OTHER -> c

AsLetter(c) ==
    CASE c = "0" -> "O" [] c = "1" -> "I" [] c = "3" -> "J"
      [] c = "4" -> "A" [] c = "6" -> "G" [] c = "5" -> "S" [] OTHER -> c

ReadEnded == pc \in {"done", "raised"}

HasDetections == ~NoDetections(result)

\* the documented pair of hypotheses, XX9999 at 0.5 then AB1234 at 0.9
ExampleHypotheses ==
    /\ HasDetections
    /\ dets = <<[text |-> Str_XX9999, score |-> 50], [text |-> Str_AB1234, score |-> 90]>>

\* a hypothesis qualifies on the primary path or on the fallback path
Qualifies(t) == PrimaryMatch(t) \/ license_complies_format(t)

---------------------------------------------------------------------------
(* C1: no operation raises: format_license, license_complies_format and    *)
(* read_license_plate always return a value, never end in a KeyError.      *)
C1_NoOperationRaises ==
    /\ call \in {"format_license", "license_complies_format", "extract_plate_format"}
           => ret.kind = "returned"
    /\ ReadEnded => read_ret.status = "returned"

(* C2: every non-absent text read_license_plate returns is LL-DDDD, with   *)
(* an accepted digit at a letter position rendered as its letter and an    *)
(* accepted letter at a digit position rendered as its digit.              *)
C2_ReturnedTextCanonical ==
    (pc = "done" /\ read_ret.text.some) =>
        /\ IsCanonical(read_ret.text.val)
        /\ \E k \in 1..Len(dets) :
               /\ Qualifies(dets[k].text)
               /\ read_ret.text.val =
                      IF PrimaryMatch(dets[k].text) THEN LeftmostPlate(dets[k].text)
                      ELSE LET sp == SplitParts(Remove(Upper(dets[k].text), " "))
                           IN  [i \in 1..Len(sp[1]) |-> AsLetter(sp[1][i])] \o <<"-">> \o
                               [i \in 1..Len(sp[2]) |-> AsDigit(sp[2][i])]

(* C3: read_license_plate returns, at the first hypothesis that matches    *)
(* the primary pattern, that hypothesis's LL-DDDD text and confidence; no  *)
(* later hypothesis is examined and no earlier one changes the result.     *)
C3_FirstPrimaryMatchReturned ==
    (ReadEnded /\ HasDetections) =>
        \A k \in 1..Len(dets) :
            (PrimaryMatch(dets[k].text) /\ \A m \in 1..(k - 1) : ~PrimaryMatch(dets[m].text))
                => /\ read_ret = ReadReturn(Some(LeftmostPlate(dets[k].text)),
                                            SomeScore(dets[k].score))
                   /\ idx = k

\* what get_car has returned, once it has
FirstContainerReturned ==
    car_ret.status = "returned" =>
        LET p == license_plate
            v == vehicle_track_ids
            inside == {j \in 1..Len(v) :
                          v[j][1] < p[1] /\ v[j][2] < p[2] /\ p[3] < v[j][3] /\ p[4] < v[j][4]}
        IN  /\ inside = {} => car_ret.val = <<-1, -1, -1, -1, -1>>
            /\ \A j \in inside : (\A m \in inside : j <= m) => car_ret.val = v[j]
            /\ (p = <<10, 10, 20, 20, 90, 0>> /\ v = <<<<0, 0, 30, 30, 1>>, <<5, 5, 25, 25, 2>>>>)
                   => car_ret.val = <<0, 0, 30, 30, 1>>

(* C4: get_car returns the entry of smallest index whose box strictly      *)
(* contains the plate box on all four sides, the sentinel                  *)
(* (-1,-1,-1,-1,-1) when there is none, and leaves its input unchanged.    *)
C4_FirstStrictContainer ==
    /\ [] FirstContainerReturned
    /\ [][vehicle_track_ids' = vehicle_track_ids /\ license_plate' = license_plate]_vars

C4_Witness ==
    /\ car_ret.status = "returned"
    /\ license_plate = <<10, 10, 20, 20, 90, 0>>
    /\ vehicle_track_ids = <<<<0, 0, 30, 30, 1>>, <<5, 5, 25, 25, 2>>>>
    /\ car_ret.val = <<0, 0, 30, 30, 1>>

(* C5: read_license_plate returns (None, None) exactly when the OCR result *)
(* is empty or absent or no hypothesis qualifies on either path; when one  *)
(* qualifies, with any confidence from 0 on, text and confidence are both  *)
(* present.                                                                *)
C5_AbsentIffNothingQualifies ==
    ReadEnded =>
        LET nothing == IF HasDetections
                       THEN \A k \in 1..Len(dets) : ~Qualifies(dets[k].text)
                       ELSE TRUE
        IN  /\ (read_ret = ReadReturn(None, NoScore)) <=> nothing
            /\ ~nothing => /\ read_ret.status = "returned"
                           /\ read_ret.text.some
                           /\ read_ret.score.some

(* C6: for a text whose dense form contains 2 letters followed by 4        *)
(* digits, format_license returns the leftmost such substring as           *)
(* letters-digits with no character substituted; AB1234 gives AB-1234 and  *)
(* NWKF7617 gives KF-7617.                                                 *)
C6_PrimaryExtraction ==
    call = "format_license" =>
        /\ PrimaryMatch(text) => ret = Returned(Some(LeftmostPlate(text)))
        /\ text = Str_AB1234 => ret = Returned(Some(Str_AB_1234))
        /\ text = Str_NWKF7617 => ret = Returned(Some(Str_KF_7617))

C6_Witness ==
    /\ call = "format_license"
    /\ text = <<"O", "O", " ", "7", "0", "7", "7">>
    /\ PrimaryMatch(text)
    /\ ret = Returned(Some(<<"O", "O", "-", "7", "0", "7", "7">>))

(* C7 as stated: the hypotheses [("XX9999", 0.5), ("AB1234", 0.9)] give    *)
(* ("AB-1234", 0.9).                                                       *)
C7_SecondReturned ==
    (ReadEnded /\ ExampleHypotheses) => read_ret = ReadReturn(Some(Str_AB_1234), SomeScore(90))

(* C7 as amended: the hypotheses [("XX9999", 0.5), ("AB1234", 0.9)] give   *)
(* ("XX-9999", 0.5): "XX9999" matches the primary pattern itself, so the   *)
(* scan returns at the first hypothesis and never examines the second.     *)
C7_FirstReturned ==
    (ReadEnded /\ ExampleHypotheses) =>
        /\ read_ret = ReadReturn(Some(Str_XX_9999), SomeScore(50))
        /\ idx = 1

C7_Witness ==
    /\ pc = "done"
    /\ ExampleHypotheses
    /\ read_ret.text = Some(Str_XX_9999)

(* C8: for a text LL-XXXX with L upper-case letters and X digits or        *)
(* letters among O I J A G S (at least one letter), format_license returns *)
(* LL- and the four characters with O->0 I->1 J->3 A->4 G->6 S->5 and the  *)
(* digits kept; KF-O617 gives KF-0617.                                     *)
C8_DigitRunCorrected ==
    /\ (call = "format_license" /\ text = Str_KF_O617) => ret = Returned(Some(Str_KF_0617))
    /\ (/\ call = "format_license"
        /\ Len(text) = 7
        /\ IsUpper(text[1]) /\ IsUpper(text[2])
        /\ text[3] = "-"
        /\ \A i \in 4..7 : (IsDigit(text[i]) \/ text[i] \in ConfusableLetters)
        /\ \E i \in 4..7 : text[i] \in ConfusableLetters)
           => ret = Returned(Some(<<text[1], text[2], "-", AsDigit(text[4]), AsDigit(text[5]),
                                    AsDigit(text[6]), AsDigit(text[7])>>))

(* C9: when format_license finds no letter/digit split (no primary match,  *)
(* and either hyphens that do not give exactly two parts, or no hyphen and *)
(* no letters-then-4-digits ending), it returns the input text unchanged,  *)
(* character for character, whatever its case or spacing.                  *)
C9_PassThroughUnchanged ==
    /\ (call = "format_license" /\ text = Str_ABCD) => ret = Returned(Some(Str_ABCD))
    /\ (/\ call = "format_license"
        /\ ~PrimaryMatch(text)
        /\ LET u == Remove(Upper(text), " ")
               hyphens == Cardinality({i \in 1..Len(u) : u[i] = "-"})
           IN  IF hyphens > 0 THEN hyphens # 1
               ELSE ~(/\ Len(u) >= 5
                      /\ IsUpper(u[Len(u) - 4])
                      /\ \A i \in (Len(u) - 3)..Len(u) : IsDigit(u[i])))
           => ret = Returned(Some(text))

(* C10: when no hypothesis matches the primary pattern, read_license_plate *)
(* returns the normalised text and the confidence of the hypothesis of     *)
(* greatest confidence among those license_complies_format accepts, the    *)
(* earliest one among equals.                                              *)
C10_BestCandidateReturned ==
    (/\ ReadEnded
     /\ HasDetections
     /\ \A k \in 1..Len(dets) : ~PrimaryMatch(dets[k].text))
        => LET cands == {k \in 1..Len(dets) : license_complies_format(dets[k].text)}
           IN  \A k \in cands :
                   (/\ \A m \in cands : dets[m].score <= dets[k].score
                    /\ \A m \in cands : dets[m].score = dets[k].score => k <= m)
                       => read_ret = ReadReturn(Some(format_license(dets[k].text).val),
                                                SomeScore(dets[k].score))

=============================================================================
